---- MODULE Spec2Model ----
(***************************************************************************)
(* Model of the Online_guru retrieval chatbot: the ingestion pipeline      *)
(* (ingest.py), the RAG engine (rag_engine.py), the simple chatbot         *)
(* (ask.py) and the three REST servers (api.py, simple_api.py,             *)
(* retrieval_api.py).                                                      *)
(***************************************************************************)
EXTENDS Integers, Sequences, FiniteSets, TLC

\* ---------------------------------------------------------------- bounds
MaxPdf == 2
MaxTxt == 1
MaxThreads == 2
MaxK == 2
MaxWords == 2
MaxPieces == 4
MaxChunkSize == 3

VARIABLES
  \* ---- ingestion (ingest.py) --------------------------------------------
  folderExists,   \* Path(settings.data_folder).exists()
  files,          \* the source files under settings.data_folder
  persisted,      \* settings.vector_db_path: directory, index.faiss, index.pkl
  pc,             \* position of the running build_vector_db call
  force,          \* force_rebuild of the running / last build_vector_db call
  before,         \* the persisted index when the call started
  documents,      \* local `documents` of build_vector_db
  chunks,         \* local `chunks` of build_vector_db
  calls,          \* pipeline methods and library calls made by the call so far
  again,          \* the call directly follows a build_vector_db that kept the index
  result,         \* how the last call ended and what it returned
  \* ---- configuration (config.py) and the serving process ----------------
  app,            \* the server this process runs: api, simple_api, retrieval_api
  use_llm,        \* settings.use_llm
  embedOK,        \* the embedding model can be loaded (DataIngestionPipeline())
  llmOK,          \* the LLM can be initialised (API key and packages present)
  server,         \* starting, serving, or failed at startup
  rag_engine,     \* api.rag_engine / simple_api.rag_engine / retrieval_api._rag_engine
  chatbot,        \* simple_api.chatbot
  engine_mode,    \* simple_api.engine_mode
  engine_initialized, \* simple_api.engine_initialized
  pipeline,       \* retrieval_api._pipeline
  vector_store,   \* retrieval_api._vector_store
  last,           \* the last request handled and its response
  \* ---- concurrent requests (the thread pool that runs the sync handlers) -
  tpc,            \* where each request thread stands in the lazy initialisation
  constructed,    \* how many pipelines, engines and chatbots were constructed
  \* ---- single calls of the retrieval and text functions -----------------
  top_k_results,  \* settings.top_k_results
  retrieved,      \* the last get_relevant_documents call and the list it returned
  input,          \* the words of the text the next call is given
  default_language, \* settings.default_language
  out,            \* the last call of a text function and what it returned
  \* ---- one document through the text splitter ---------------------------
  chunk_size,     \* settings.chunk_size
  chunk_overlap,  \* settings.chunk_overlap
  page_content,   \* the pieces of text the document is made of
  chunked         \* the chunks split_documents made of the document

ingestVars == <<folderExists, files, persisted, pc, force, before, documents,
                chunks, calls, again, result>>

serveVars == <<app, use_llm, embedOK, llmOK, server, rag_engine, chatbot,
               engine_mode, engine_initialized, pipeline, vector_store, last,
               tpc, constructed>>

chunkVars == <<chunk_size, chunk_overlap, page_content, chunked>>

functionVars == <<top_k_results, retrieved, input, default_language, out, chunkVars>>

vars == <<ingestVars, serveVars, functionVars>>

\* ------------------------------------------------------- the file system
PdfFiles == 1..MaxPdf
TxtFiles == (MaxPdf + 1)..(MaxPdf + MaxTxt)
Files == PdfFiles \cup TxtFiles

\* A source file is absent, fails to parse ("bad": corrupt PDF, bad encoding),
\* parses to empty text, or parses to text.
FileStatus == {"absent", "bad", "empty", "text"}

\* One persisted artifact: missing, unreadable, or holding the entries written
\* by save_local (an entry is named by the source file it was cut from).
Missing == [state |-> "missing", content |-> {}]
Corrupt == [state |-> "corrupt", content |-> {}]
Written(c) == [state |-> "ok", content |-> c]

NoIndex == [dir |-> FALSE, faiss |-> Missing, pkl |-> Missing]

\* Python's None, and a FAISS store object.
None == [present |-> FALSE, vectors |-> {}, docs |-> {}]
Store(v, d) == [present |-> TRUE, vectors |-> v, docs |-> d]

NoResult == [op |-> "none", kind |-> "none", store |-> None]

\* No get_relevant_documents call followed yet; no text function called yet.
NotRetrieved == [done |-> FALSE, similarity |-> <<>>, outcome |-> "none", docs |-> <<>>]
NotChunked == [done |-> FALSE, chunks |-> <<>>]
NoOutput ==
  [op |-> "none", warning |-> "none", response |-> <<>>, language |-> "none",
   invoked |-> FALSE, raised |-> FALSE, detector |-> "none"]

\* ------------------------------------------------------------- ingest.py
\* FAISS.load_local(path, ...): reads index.faiss and index.pkl, raises when
\* either cannot be read.
FAISS_load_local(p) ==
  IF p.faiss.state = "ok" /\ p.pkl.state = "ok"
  THEN [raised |-> FALSE, value |-> Store(p.faiss.content, p.pkl.content)]
  ELSE [raised |-> TRUE, value |-> None]

\* Mutant: load_vector_store without its try/except.
load_vector_store_unguarded(p) ==
  IF ~p.dir THEN [raised |-> FALSE, value |-> None] ELSE FAISS_load_local(p)

\* DataIngestionPipeline.load_vector_store: None when the directory is missing,
\* None when FAISS.load_local raises, the store otherwise.
load_vector_store(p) ==
  IF ~p.dir
  THEN [raised |-> FALSE, value |-> None]
  ELSE LET r == FAISS_load_local(p)
       IN IF r.raised THEN [raised |-> FALSE, value |-> None] ELSE r

Doc(f, fs) == [source |-> f, empty |-> (fs[f] = "empty")]

\* DataIngestionPipeline.load_pdf_files: DirectoryLoader(...).load() with the
\* default silent_errors = False raises on the first file that fails to load;
\* the except clause then returns [] for the whole folder.
load_pdf_files(fs) ==
  LET found == {f \in PdfFiles : fs[f] # "absent"}
  IN IF \E f \in found : fs[f] = "bad"
     THEN {}
     ELSE {Doc(f, fs) : f \in found}

\* DataIngestionPipeline.load_txt_files: a per-file try/except skips the file
\* that cannot be read and keeps the others.
load_txt_files(fs) ==
  {Doc(f, fs) : f \in {g \in TxtFiles : fs[g] \in {"empty", "text"}}}

\* DataIngestionPipeline.load_all_documents: [] when the folder is missing (the
\* folder is created), the PDF and the TXT documents otherwise.
load_all_documents(exists, fs) ==
  IF ~exists THEN {} ELSE load_pdf_files(fs) \cup load_txt_files(fs)

\* DataIngestionPipeline.split_documents: the splitter emits no chunk for a
\* document with empty text; a chunk carries its document's source.
split_documents(docs) == {d.source : d \in {e \in docs : ~e.empty}}

\* DataIngestionPipeline.save_vector_store: mkdir -p and save_local, which
\* overwrite index.faiss and index.pkl.
save_vector_store(store) ==
  [dir |-> TRUE, faiss |-> Written(store.vectors), pkl |-> Written(store.docs)]

\* ------------------------------------------------------------------ text
\* A string is a sequence of one-character strings.
UpperCase == <<"A","B","C","D","E","F","G","H","I","J","K","L","M","N","O","P","Q","R","S","T","U","V","W","X","Y","Z">>
LowerCase == <<"a","b","c","d","e","f","g","h","i","j","k","l","m","n","o","p","q","r","s","t","u","v","w","x","y","z">>

\* str.lower() on the characters the model uses.
LowerChar(c) ==
  IF \E i \in 1..Len(UpperCase) : UpperCase[i] = c
  THEN LowerCase[CHOOSE i \in 1..Len(UpperCase) : UpperCase[i] = c]
  ELSE c

lower(str) == [i \in 1..Len(str) |-> LowerChar(str[i])]

\* Python's `k in str` on strings: k occurs in str as a substring.
Contains(str, k) ==
  \E i \in 1..(Len(str) - Len(k) + 1) : SubSeq(str, i, i + Len(k) - 1) = k

\* any(keyword in text for keyword in keywords)
AnyKeyword(keywords, text) ==
  \E n \in 1..Len(keywords) : Contains(text, keywords[n])

\* ------------------------------------------- rag_engine.py: SafetyFilter
MEDICAL_KEYWORDS ==
  << <<"d","i","s","e","a","s","e">>,
     <<"c","u","r","e">>,
     <<"m","e","d","i","c","i","n","e">>,
     <<"t","r","e","a","t","m","e","n","t">>,
     <<"d","i","a","g","n","o","s","i","s">>,
     <<"s","y","m","p","t","o","m">>,
     <<"c","a","n","c","e","r">>,
     <<"d","i","a","b","e","t","e","s">>,
     <<"c","o","v","i","d">>,
     <<"i","l","l","n","e","s","s">>,
     <<"d","r","u","g">>,
     <<"p","r","e","s","c","r","i","p","t","i","o","n">>,
     <<"s","u","r","g","e","r","y">>,
     <<"t","h","e","r","a","p","y">>,
     <<"m","e","d","i","c","a","l">>,
     <<"h","e","a","l","t","h"," ","p","r","o","b","l","e","m">>,
     <<"s","i","c","k">> >>

LEGAL_KEYWORDS ==
  << <<"l","a","w","s","u","i","t">>,
     <<"l","e","g","a","l"," ","a","d","v","i","c","e">>,
     <<"c","o","u","r","t">>,
     <<"l","a","w","y","e","r">>,
     <<"a","t","t","o","r","n","e","y">>,
     <<"s","u","e">>,
     <<"c","o","n","t","r","a","c","t">>,
     <<"d","i","v","o","r","c","e">>,
     <<"c","u","s","t","o","d","y">>,
     <<"w","i","l","l">>,
     <<"t","e","s","t","a","m","e","n","t">>,
     <<"r","i","g","h","t","s">>,
     <<"l","a","w">>,
     <<"i","l","l","e","g","a","l">>,
     <<"c","r","i","m","i","n","a","l">> >>

PREDICTIVE_KEYWORDS ==
  << <<"p","r","e","d","i","c","t">>,
     <<"f","u","t","u","r","e">>,
     <<"w","i","l","l"," ","h","a","p","p","e","n">>,
     <<"f","o","r","t","u","n","e">>,
     <<"l","o","t","t","e","r","y">>,
     <<"w","i","n","n","i","n","g">>,
     <<"s","t","o","c","k"," ","m","a","r","k","e","t">>,
     <<"i","n","v","e","s","t","m","e","n","t">>,
     <<"w","h","e","n"," ","w","i","l","l">>,
     <<"p","r","e","d","i","c","t","i","o","n">>,
     <<"f","o","r","e","t","e","l","l">> >>

\* is_prohibited_topic that matches the question as typed, not lowercased.
is_prohibited_topic_as_typed(question) ==
  IF AnyKeyword(MEDICAL_KEYWORDS, question) THEN "medical_warning"
  ELSE IF AnyKeyword(LEGAL_KEYWORDS, question) THEN "legal_warning"
  ELSE IF AnyKeyword(PREDICTIVE_KEYWORDS, question) THEN "predictive_warning"
  ELSE "none"

\* is_prohibited_topic that checks the legal keywords before the medical ones.
is_prohibited_topic_legal_first(question) ==
  LET question_lower == lower(question)
  IN IF AnyKeyword(LEGAL_KEYWORDS, question_lower) THEN "legal_warning"
     ELSE IF AnyKeyword(MEDICAL_KEYWORDS, question_lower) THEN "medical_warning"
     ELSE IF AnyKeyword(PREDICTIVE_KEYWORDS, question_lower) THEN "predictive_warning"
     ELSE "none"

\* is_prohibited_topic that checks the predictive keywords first.
is_prohibited_topic_predictive_first(question) ==
  LET question_lower == lower(question)
  IN IF AnyKeyword(PREDICTIVE_KEYWORDS, question_lower) THEN "predictive_warning"
     ELSE IF AnyKeyword(MEDICAL_KEYWORDS, question_lower) THEN "medical_warning"
     ELSE IF AnyKeyword(LEGAL_KEYWORDS, question_lower) THEN "legal_warning"
     ELSE "none"

\* SafetyFilter.is_prohibited_topic: the warning of the first category, in the
\* order medical, legal, predictive, one of whose keywords occurs in the
\* lowercased question; "none" stands for None.
is_prohibited_topic(question) ==
  LET question_lower == lower(question)
  IN IF AnyKeyword(MEDICAL_KEYWORDS, question_lower) THEN "medical_warning"
     ELSE IF AnyKeyword(LEGAL_KEYWORDS, question_lower) THEN "legal_warning"
     ELSE IF AnyKeyword(PREDICTIVE_KEYWORDS, question_lower) THEN "predictive_warning"
     ELSE "none"

\* The questions requests are drawn from.
QCure == <<"C","a","n"," ","y","o","u"," ","c","u","r","e"," ","m","y"," ","d","i","a","b","e","t","e","s","?">>
QPurpose == <<"W","h","a","t"," ","i","s"," ","t","h","e"," ","p","u","r","p","o","s","e"," ","o","f"," ","l","i","f","e","?">>
Questions == {QCure, QPurpose}

\* is_prohibited_topic on the questions of the model, evaluated once.
SafetyFilter == [q \in Questions |-> is_prohibited_topic(q)]

\* SafetyFilter.DIVINE_CLAIMS
DIVINE_CLAIMS ==
  << <<"i"," ","a","m"," ","g","o","d">>,
     <<"i"," ","a","m"," ","d","i","v","i","n","e">>,
     <<"i"," ","a","m"," ","s","a","i"," ","b","a","b","a">>,
     <<"w","o","r","s","h","i","p"," ","m","e">>,
     <<"i"," ","a","m"," ","o","m","n","i","p","o","t","e","n","t">>,
     <<"i"," ","a","m"," ","a","l","l","-","k","n","o","w","i","n","g">> >>

\* The phrase sanitize_response puts in the place of a divine claim.
NeutralPhrase == <<"S","a","i"," ","B","a","b","a"," ","t","e","a","c","h","e","s">>

\* The phrase of an uncertain response.
DontKnow == <<"i"," ","d","o","n","'","t"," ","k","n","o","w">>

\* The disclaimer sanitize_response appends.
Disclaimer ==
  <<"\n","\n","N","o","t","e",":"," ","T","h","i","s"," ","g","u","i","d","a","n","c","e"," ","i",
    "s"," ","b","a","s","e","d"," ","o","n"," ","t","h","e"," ","a","v","a","i","l","a","b","l","e",
    " ","t","e","a","c","h","i","n","g","s","."," ","F","o","r"," ","d","e","e","p","e","r"," ","s",
    "p","i","r","i","t","u","a","l"," ","u","n","d","e","r","s","t","a","n","d","i","n","g",","," ",
    "c","o","n","s","i","d","e","r"," ","s","t","u","d","y","i","n","g"," ","S","a","i"," ","B","a",
    "b","a","'","s"," ","o","r","i","g","i","n","a","l"," ","w","o","r","k","s"," ","a","n","d"," ",
    "s","e","e","k","i","n","g"," ","g","u","i","d","a","n","c","e"," ","f","r","o","m"," ","q","u",
    "a","l","i","f","i","e","d"," ","s","p","i","r","i","t","u","a","l"," ","t","e","a","c","h","e",
    "r","s",".">>

\* Python's str.replace(old, new): every occurrence of old, found from the
\* left and not overlapping, compared character by character.
RECURSIVE Replace(_, _, _)
Replace(str, old, new) ==
  IF Len(str) < Len(old) THEN str
  ELSE IF SubSeq(str, 1, Len(old)) = old
  THEN new \o Replace(SubSeq(str, Len(old) + 1, Len(str)), old, new)
  ELSE <<Head(str)>> \o Replace(Tail(str), old, new)

\* The loop of sanitize_response over DIVINE_CLAIMS[n..]: a claim is looked for
\* in response_lower, and replaced in response.
RECURSIVE ReplaceClaims(_, _, _)
ReplaceClaims(n, response, response_lower) ==
  IF n > Len(DIVINE_CLAIMS) THEN response
  ELSE ReplaceClaims(n + 1,
                     IF Contains(response_lower, DIVINE_CLAIMS[n])
                     THEN Replace(response, DIVINE_CLAIMS[n], NeutralPhrase)
                     ELSE response,
                     response_lower)

\* sanitize_response that measures the response as it was given.
sanitize_response_measures_input(response) ==
  LET response_lower == lower(response)
      replaced == ReplaceClaims(1, response, response_lower)
  IN IF Len(response) < 50 \/ Contains(response_lower, DontKnow)
     THEN replaced \o Disclaimer
     ELSE replaced

\* SafetyFilter.sanitize_response: the length is that of the response after the
\* replacements, the uncertain phrase is looked for in the lowercased response
\* as it was given.
sanitize_response(response) ==
  LET response_lower == lower(response)
      replaced == ReplaceClaims(1, response, response_lower)
  IN IF Len(replaced) < 50 \/ Contains(response_lower, DontKnow)
     THEN replaced \o Disclaimer
     ELSE replaced

\* ---------------------------------------------------------------- Init
InitIngest ==
  /\ folderExists = TRUE
  /\ files = [f \in Files |-> "absent"]
  /\ persisted = NoIndex
  /\ pc = "idle"
  /\ force = FALSE
  /\ before = NoIndex
  /\ documents = {}
  /\ chunks = {}
  /\ calls = {}
  /\ again = FALSE
  /\ result = NoResult

Forget ==
  /\ force' = FALSE
  /\ before' = NoIndex
  /\ documents' = {}
  /\ chunks' = {}
  /\ calls' = {}
  /\ again' = FALSE
  /\ result' = NoResult

\* ------------------------------------------- the environment of ingest.py
\* A source file is added, replaced or deleted.
PutFile(f, s) ==
  /\ pc = "idle"
  /\ folderExists
  /\ files[f] # s
  /\ f \in PdfFiles => s # "empty"
  /\ files' = [files EXCEPT ![f] = s]
  /\ Forget
  /\ UNCHANGED <<folderExists, persisted, pc>>
  /\ UNCHANGED <<serveVars, functionVars>>

\* The (empty) data folder is deleted.
RemoveDataFolder ==
  /\ pc = "idle"
  /\ folderExists
  /\ \A f \in Files : files[f] = "absent"
  /\ folderExists' = FALSE
  /\ Forget
  /\ UNCHANGED <<files, persisted, pc>>
  /\ UNCHANGED <<serveVars, functionVars>>

\* One artifact of the persisted index is deleted or damaged.
DamageArtifact(a, how) ==
  /\ pc = "idle"
  /\ persisted.dir
  /\ persisted[a].state = "ok"
  /\ persisted' = [persisted EXCEPT ![a] = how]
  /\ Forget
  /\ UNCHANGED <<folderExists, files, pc>>
  /\ UNCHANGED <<serveVars, functionVars>>

\* The index directory is deleted.
RemoveIndexDir ==
  /\ pc = "idle"
  /\ persisted.dir
  /\ persisted' = NoIndex
  /\ Forget
  /\ UNCHANGED <<folderExists, files, pc>>
  /\ UNCHANGED <<serveVars, functionVars>>

\* --------------------------------------------------------- build_vector_db
\* Mutant: force_rebuild = true deletes the persisted index first.
BuildStartDeletes(fr) ==
  LET r == load_vector_store(persisted)
  IN /\ pc = "idle"
     /\ force' = fr
     /\ again' = (result.op = "build" /\ result.kind = "existing")
     /\ before' = persisted
     /\ documents' = {}
     /\ chunks' = {}
     /\ calls' = IF fr THEN {} ELSE {"load_vector_store"}
     /\ IF ~fr /\ r.value.present
        THEN /\ pc' = "idle"
             /\ result' = [op |-> "build", kind |-> "existing", store |-> r.value]
        ELSE /\ pc' = "load"
             /\ result' = [op |-> "build", kind |-> "running", store |-> None]
     /\ persisted' = IF fr THEN NoIndex ELSE persisted
     /\ UNCHANGED <<folderExists, files>>
     /\ UNCHANGED <<serveVars, functionVars>>

\* Mutant: the existing-index check is skipped (always rebuild).
BuildStartAlways(fr) ==
  /\ pc = "idle"
  /\ force' = fr
  /\ again' = (result.op = "build" /\ result.kind = "existing")
  /\ before' = persisted
  /\ documents' = {}
  /\ chunks' = {}
  /\ calls' = {}
  /\ pc' = "load"
  /\ result' = [op |-> "build", kind |-> "running", store |-> None]
  /\ UNCHANGED <<folderExists, files, persisted>>
  /\ UNCHANGED <<serveVars, functionVars>>

\* ingest.py 262-268: the existing-index check.
BuildStart(fr) ==
  LET r == load_vector_store(persisted)
  IN /\ pc = "idle"
     /\ force' = fr
     /\ again' = (result.op = "build" /\ result.kind = "existing")
     /\ before' = persisted
     /\ documents' = {}
     /\ chunks' = {}
     /\ calls' = IF fr THEN {} ELSE {"load_vector_store"}
     /\ IF ~fr /\ r.value.present
        THEN /\ pc' = "idle"
             /\ result' = [op |-> "build", kind |-> "existing", store |-> r.value]
        ELSE /\ pc' = "load"
             /\ result' = [op |-> "build", kind |-> "running", store |-> None]
     /\ UNCHANGED <<folderExists, files, persisted>>
     /\ UNCHANGED <<serveVars, functionVars>>

\* ingest.py 271-277: load_all_documents and the "no documents" error.
BuildLoad ==
  LET docs == load_all_documents(folderExists, files)
  IN /\ pc = "load"
     /\ folderExists' = TRUE
     /\ documents' = docs
     /\ calls' = calls \cup {"load_all_documents"}
     /\ IF docs = {}
        THEN /\ pc' = "idle"
             /\ result' = [op |-> "build", kind |-> "ValueError", store |-> None]
        ELSE /\ pc' = "split"
             /\ UNCHANGED result
     /\ UNCHANGED <<files, persisted, force, before, chunks, again>>
     /\ UNCHANGED <<serveVars, functionVars>>

\* ingest.py 280: split_documents.
BuildSplit ==
  /\ pc = "split"
  /\ chunks' = split_documents(documents)
  /\ calls' = calls \cup {"split_documents"}
  /\ pc' = "create"
  /\ UNCHANGED <<folderExists, files, persisted, force, before, documents, again, result>>
  /\ UNCHANGED <<serveVars, functionVars>>

\* Mutant: create_vector_store without its "no documents" guard.
create_vector_store_unguarded(saved) ==
  LET store == Store(chunks, chunks)
  IN IF saved
     THEN /\ persisted' = save_vector_store(store)
          /\ calls' = calls \cup {"FAISS.from_documents", "save_vector_store"}
          /\ result' = [op |-> "build", kind |-> "built", store |-> store]
     ELSE /\ calls' = calls \cup {"FAISS.from_documents", "save_vector_store"}
          /\ result' = [op |-> "build", kind |-> "SaveError", store |-> None]
          /\ UNCHANGED persisted

\* DataIngestionPipeline.create_vector_store, guard included: raises on an
\* empty chunk list, otherwise embeds, builds the store and saves it.
create_vector_store(saved) ==
  IF chunks = {}
  THEN /\ result' = [op |-> "build", kind |-> "ValueError", store |-> None]
       /\ UNCHANGED <<persisted, calls>>
  ELSE LET store == Store(chunks, chunks)
       IN IF saved
          THEN /\ persisted' = save_vector_store(store)
               /\ calls' = calls \cup {"FAISS.from_documents", "save_vector_store"}
               /\ result' = [op |-> "build", kind |-> "built", store |-> store]
          ELSE /\ calls' = calls \cup {"FAISS.from_documents", "save_vector_store"}
               /\ result' = [op |-> "build", kind |-> "SaveError", store |-> None]
               /\ UNCHANGED persisted

\* ingest.py 283-286: create_vector_store (which saves) and the return.
BuildCreate ==
  /\ pc = "create"
  /\ \E saved \in BOOLEAN : create_vector_store(saved)
  /\ pc' = "idle"
  /\ UNCHANGED <<folderExists, files, force, before, documents, chunks, again>>
  /\ UNCHANGED <<serveVars, functionVars>>

\* A direct call of load_vector_store (as the serving engines make it).
LoadCall ==
  LET r == load_vector_store(persisted)
  IN /\ pc = "idle"
     /\ result' = [op |-> "load",
                   kind |-> IF r.raised THEN "raised" ELSE "returned",
                   store |-> r.value]
     /\ force' = FALSE
     /\ again' = FALSE
     /\ before' = persisted
     /\ documents' = {}
     /\ chunks' = {}
     /\ calls' = {"load_vector_store"}
     /\ UNCHANGED <<folderExists, files, persisted, pc>>
     /\ UNCHANGED <<serveVars, functionVars>>

\* ------------------------------------------------ properties of ingest.py
\* The index at `p` can be loaded: the directory and both artifacts are there
\* and readable.
Loadable(p) == p.dir /\ p.faiss.state = "ok" /\ p.pkl.state = "ok"

\* Something of an index is on disk at `p`.
HasArtifacts(p) == p.faiss.state # "missing" \/ p.pkl.state # "missing"

\* A build_vector_db call is between its existing-index check and its return.
Building == pc \in {"load", "split", "create"}

\* The call of build_vector_db has returned or raised.
BuildEnded == pc = "idle" /\ result.op = "build"

\* The entries a complete index of the folder holds: one per file with text.
ChunksOfFolder == {f \in Files : files[f] = "text"}

\* The documents of every file of the folder that parses.
ParseableDocuments == {Doc(f, files) : f \in {g \in Files : files[g] \in {"empty", "text"}}}

\* C5: build_vector_db(force_rebuild = false) over a loadable index returns the
\* existing store, calls nothing but load_vector_store (no document loading,
\* chunking, embedding or saving) and leaves the persisted artifacts as they
\* were; this also holds for a call that directly follows such a call.
C5_SkipKeepsIndex ==
  (result.op = "build" /\ ~force /\ Loadable(before)) =>
    /\ pc = "idle"
    /\ result.kind = "existing"
    /\ result.store = Store(before.faiss.content, before.pkl.content)
    /\ calls = {"load_vector_store"}
    /\ persisted = before

C5_Witness ==
  /\ BuildEnded /\ ~force /\ Loadable(before)
  /\ again
  /\ result.kind = "existing"
  /\ result.store.vectors # {}

C7_EmptyRunAborts ==
  (BuildEnded /\ result.kind # "existing" /\ chunks = {}) =>
    /\ result.kind = "ValueError"
    /\ "save_vector_store" \notin calls
    /\ persisted = before

C7_Witness ==
  /\ BuildEnded /\ force /\ Loadable(before)
  /\ documents # {}
  /\ chunks = {}
  /\ result.kind = "ValueError"

\* C8 as claimed: after a successful forced rebuild over an existing index the
\* persisted index holds exactly the chunks of the files now in the folder.
C8_RebuildHoldsFolder ==
  (BuildEnded /\ force /\ result.kind = "built" /\ HasArtifacts(before)) =>
    /\ persisted.faiss = Written(ChunksOfFolder)
    /\ persisted.pkl = Written(ChunksOfFolder)

\* C9 as claimed: with one file that fails to parse, every other file that
\* parses is among the loaded documents.
C9_OneBadFileOnlyLosesItself ==
  (result.op = "build" /\ "load_all_documents" \in calls
     /\ Cardinality({f \in Files : files[f] = "bad"}) = 1) =>
    documents = ParseableDocuments

\* C10: load_vector_store returns None, and does not raise, when the index
\* directory or one of the two artifacts is missing or unreadable.
C10_LoadReturnsNone ==
  (result.op = "load" /\ ~Loadable(before)) =>
    /\ result.kind = "returned"
    /\ result.store = None

C10_Witness ==
  /\ result.op = "load"
  /\ before.dir
  /\ before.faiss.state = "ok"
  /\ before.pkl.state = "corrupt"
  /\ result.store = None

NextIngest ==
  \/ \E f \in Files, s \in FileStatus : PutFile(f, s)
  \/ RemoveDataFolder
  \/ \E a \in {"faiss", "pkl"}, how \in {Missing, Corrupt} : DamageArtifact(a, how)
  \/ RemoveIndexDir
  \/ \E fr \in BOOLEAN : BuildStart(fr)
  \/ BuildLoad
  \/ BuildSplit
  \/ BuildCreate
  \/ LoadCall

\* ------------------------------------------------------------ the engines
\* settings.supported_languages
SupportedLanguages == {"en", "hi", "te", "kn"}

\* The `language` a request may carry ("none": not given).
RequestLanguages == {"none", "en", "hi"}

\* What the language detector may return for a question of the model.
DetectedLanguages == {"en", "te"}

\* Outcomes of FAISS.similarity_search and of llm.invoke ("raises": both
\* invocations raise; "malformed": the response's content is not a str, as the
\* content of a chat message may be a list).
SearchOutcomes == {"docs", "empty", "raises"}
LlmOutcomes == {"ok", "raises", "malformed"}

\* The request threads of a server process.
Threads == 1..MaxThreads

NothingConstructed == [pipeline |-> 0, engine |-> 0, chatbot |-> 0]

NoEngine == [present |-> FALSE, pipeline |-> FALSE, vector_store |-> None, llm |-> FALSE]
NoChatbot == [present |-> FALSE, vector_store |-> None]

\* MultilingualRAGEngine.__init__: a failure of DataIngestionPipeline() is
\* caught (pipeline = None, vector_store = None); a failure of _initialize_llm
\* is not.
NewEngine(embed, p, usellm, llmok) ==
  [raised |-> usellm /\ ~llmok,
   value |-> [present |-> TRUE,
              pipeline |-> embed,
              vector_store |-> IF embed THEN load_vector_store(p).value ELSE None,
              llm |-> usellm]]

\* SimpleChatbot.__init__: a failure of DataIngestionPipeline() is caught.
NewChatbot(embed, p) ==
  [present |-> TRUE,
   vector_store |-> IF embed THEN load_vector_store(p).value ELSE None]

\* get_relevant_documents without its `if not vector_store` guard.
get_relevant_documents_unguarded(engine, so) ==
  [docs |-> IF so = "docs" THEN engine.vector_store.docs ELSE {},
   trace |-> <<"similarity_search">>]

\* MultilingualRAGEngine.get_relevant_documents: [] without a vector store, []
\* when similarity_search raises, its documents otherwise.
get_relevant_documents(engine, so) ==
  IF ~engine.vector_store.present
  THEN [docs |-> {}, trace |-> <<>>]
  ELSE [docs |-> IF so = "docs" THEN engine.vector_store.docs ELSE {},
        trace |-> <<"similarity_search">>]

\* answer_question whose handler of the last resort keeps the retrieved sources.
answer_question_keeping_sources(engine, question, lang, dl, so, lo) ==
  LET detected_language == IF lang = "none" THEN dl ELSE lang
      t0 == IF lang = "none" THEN <<"detect_language">> ELSE <<>>
      t1 == t0 \o <<"is_prohibited_topic">>
      safety_warning == SafetyFilter[question]
      r == get_relevant_documents(engine, so)
      t2 == t1 \o r.trace
      base == [answer |-> "none", language |-> detected_language, sources |-> {},
               is_safe |-> TRUE, error |-> FALSE, method |-> "rag", trace |-> t2]
  IN IF safety_warning # "none"
     THEN [base EXCEPT !.answer = safety_warning, !.is_safe = FALSE, !.trace = t1]
     ELSE IF r.docs = {}
     THEN [base EXCEPT !.answer = "no_info"]
     ELSE IF ~engine.llm
     THEN [base EXCEPT !.answer = "from_docs", !.sources = r.docs]
     ELSE IF lo = "ok"
     THEN [base EXCEPT !.answer = "llm", !.sources = r.docs,
                       !.trace = t2 \o <<"llm.invoke">>]
     ELSE IF lo = "malformed"
     THEN [base EXCEPT !.answer = "apology", !.sources = r.docs, !.error = TRUE,
                       !.trace = t2 \o <<"llm.invoke">>]
     ELSE [base EXCEPT !.answer = "from_docs", !.sources = r.docs, !.error = TRUE,
                       !.trace = t2 \o <<"llm.invoke", "llm.invoke">>]

\* MultilingualRAGEngine.answer_question. lang: the language passed in; dl, so,
\* lo: what the detector, the search and the LLM do on this call. The result
\* always has answer, language, sources and is_safe; error stands for the
\* presence of the "error" key. When the LLM's content is not a str,
\* sanitize_response raises on it and the outer handler returns the apology
\* with no sources; when both invocations raise, the inner handler falls back
\* to the answer made from the retrieved documents, sources included.
answer_question(engine, question, lang, dl, so, lo) ==
  LET detected_language == IF lang = "none" THEN dl ELSE lang
      t0 == IF lang = "none" THEN <<"detect_language">> ELSE <<>>
      t1 == t0 \o <<"is_prohibited_topic">>
      safety_warning == SafetyFilter[question]
      r == get_relevant_documents(engine, so)
      t2 == t1 \o r.trace
      base == [answer |-> "none", language |-> detected_language, sources |-> {},
               is_safe |-> TRUE, error |-> FALSE, method |-> "rag", trace |-> t2]
  IN IF safety_warning # "none"
     THEN [base EXCEPT !.answer = safety_warning, !.is_safe = FALSE, !.trace = t1]
     ELSE IF r.docs = {}
     THEN [base EXCEPT !.answer = "no_info"]
     ELSE IF ~engine.llm
     THEN [base EXCEPT !.answer = "from_docs", !.sources = r.docs]
     ELSE IF lo = "ok"
     THEN [base EXCEPT !.answer = "llm", !.sources = r.docs,
                       !.trace = t2 \o <<"llm.invoke">>]
     ELSE IF lo = "malformed"
     THEN [base EXCEPT !.answer = "apology", !.error = TRUE,
                       !.trace = t2 \o <<"llm.invoke">>]
     ELSE [base EXCEPT !.answer = "from_docs", !.sources = r.docs, !.error = TRUE,
                       !.trace = t2 \o <<"llm.invoke", "llm.invoke">>]

\* SimpleChatbot.ask, for a question without a "lang:xx" / "in Hindi"
\* instruction: retrieval when a store is held and the search returns
\* documents, the sample teachings (_find_relevant_answer) otherwise.
SimpleChatbot_ask(bot, question, lang, dl, so) ==
  LET language == IF lang = "none" THEN dl ELSE lang
      t0 == IF lang = "none" THEN <<"detect_language">> ELSE <<>>
      t1 == t0 \o <<"is_prohibited_topic">>
      safety_warning == SafetyFilter[question]
      searched == bot.vector_store.present
      t2 == IF searched THEN t1 \o <<"similarity_search">> ELSE t1
      base == [answer |-> "none", language |-> language, sources |-> {},
               is_safe |-> TRUE, error |-> FALSE, method |-> "none", trace |-> t2]
  IN IF safety_warning # "none"
     THEN [base EXCEPT !.answer = safety_warning, !.is_safe = FALSE,
                       !.method = "safety_filter", !.trace = t1]
     ELSE IF searched /\ so = "docs"
     THEN [base EXCEPT !.answer = "passages", !.sources = bot.vector_store.docs,
                       !.method = "vector_retrieval"]
     ELSE [base EXCEPT !.answer = "sample_teachings", !.method = "sample_teachings"]

\* ------------------------------------------------------------ the servers
\* The record kept of a handled request. store_absent: the serving path held
\* no vector store; search: what the similarity search did, if it ran.
Handled(path, question, status, r, store_absent, so) ==
  [path |-> path, question |-> question, status |-> status, answer |-> r.answer,
   language |-> r.language, sources |-> r.sources, is_safe |-> r.is_safe,
   error |-> r.error, method |-> r.method, trace |-> r.trace, store_absent |-> store_absent,
   search |-> IF \E i \in 1..Len(r.trace) : r.trace[i] = "similarity_search"
              THEN so ELSE "not_run"]

\* A response that is not the result of an engine.
Plain(answer, language, is_safe, trace) ==
  [answer |-> answer, language |-> language, sources |-> {}, is_safe |-> is_safe,
   error |-> FALSE, method |-> "handler", trace |-> trace]

NoRequest ==
  [path |-> "none", question |-> <<>>, status |-> 0, answer |-> "none",
   language |-> "none", sources |-> {}, is_safe |-> TRUE, error |-> FALSE,
   method |-> "none", trace |-> <<>>, store_absent |-> FALSE, search |-> "not_run"]

\* api.py lifespan: validate_config (which creates the index directory when it
\* is missing), MultilingualRAGEngine(), validate_system (a degraded status
\* does not fail the startup); an exception is re-raised.
ApiStartup ==
  LET e == NewEngine(embedOK, persisted, use_llm, llmOK)
  IN /\ app = "api"
     /\ server = "starting"
     /\ IF e.raised
        THEN /\ server' = "failed"
             /\ UNCHANGED rag_engine
        ELSE /\ server' = "serving"
             /\ rag_engine' = e.value
     /\ persisted' = [persisted EXCEPT !.dir = TRUE]
     /\ UNCHANGED <<app, use_llm, embedOK, llmOK, chatbot, engine_mode,
                    engine_initialized, pipeline, vector_store, last>>
     /\ UNCHANGED <<folderExists, files, pc, force, before, documents, chunks,
                    calls, again, result, functionVars, tpc, constructed>>

\* ask_question of an engine that looks for the index again on each request
\* made while it holds no store.
ApiAskReloading(question, dl, so, lo) ==
  LET engine == IF rag_engine.present /\ ~rag_engine.vector_store.present
                THEN [rag_engine EXCEPT !.vector_store = load_vector_store(persisted).value]
                ELSE rag_engine
      r == answer_question(engine, question, "none", dl, so, lo)
      absent == ~engine.vector_store.present
  IN /\ app = "api"
     /\ server = "serving"
     /\ rag_engine' = engine
     /\ last' =
          IF ~engine.present
          THEN Handled("api", question, 503, Plain("not_initialized", "none", TRUE, <<>>),
                       TRUE, so)
          ELSE IF absent
          THEN Handled("api", question, 200,
                       Plain("kb_not_initialized", "none", FALSE, <<>>), TRUE, so)
          ELSE Handled("api", question, 200, r, FALSE, so)
     /\ UNCHANGED <<app, use_llm, embedOK, llmOK, server, chatbot,
                    engine_mode, engine_initialized, pipeline, vector_store>>
     /\ UNCHANGED <<ingestVars, functionVars, tpc, constructed>>

\* api.py ask_question (POST /ask).
ApiAsk(question, dl, so, lo) ==
  LET r == answer_question(rag_engine, question, "none", dl, so, lo)
      absent == ~rag_engine.vector_store.present
  IN /\ app = "api"
     /\ server = "serving"
     /\ last' =
          IF ~rag_engine.present
          THEN Handled("api", question, 503, Plain("not_initialized", "none", TRUE, <<>>),
                       TRUE, so)
          ELSE IF absent
          THEN Handled("api", question, 200,
                       Plain("kb_not_initialized", "none", FALSE, <<>>), TRUE, so)
          ELSE Handled("api", question, 200, r, FALSE, so)
     /\ UNCHANGED <<app, use_llm, embedOK, llmOK, server, rag_engine, chatbot,
                    engine_mode, engine_initialized, pipeline, vector_store>>
     /\ UNCHANGED <<ingestVars, functionVars, tpc, constructed>>

\* simple_api.py get_engine, run to its end: the globals it leaves.
get_engine ==
  LET e == NewEngine(embedOK, persisted, use_llm, llmOK)
  IN IF engine_initialized
     THEN [rag_engine |-> rag_engine, chatbot |-> chatbot, engine_mode |-> engine_mode]
     ELSE IF use_llm /\ ~e.raised
     THEN [rag_engine |-> e.value, chatbot |-> chatbot, engine_mode |-> engine_mode]
     ELSE [rag_engine |-> rag_engine, chatbot |-> NewChatbot(embedOK, persisted),
           engine_mode |-> IF use_llm THEN "simple" ELSE engine_mode]

\* simple_api.py ask_question / ask_question_get (POST and GET /ask).
\* AnswerResponse(**result) rejects the engine's sources (their metadata is a
\* dict, not a str); the handler turns every exception into a 500.
SimpleAsk(question, lang, dl, so, lo) ==
  LET g == get_engine
      llm_path == g.engine_mode = "llm" /\ g.rag_engine.present
      r == IF llm_path
           THEN answer_question(g.rag_engine, question, lang, dl, so, lo)
           ELSE SimpleChatbot_ask(g.chatbot, question, lang, dl, so)
      absent == IF llm_path THEN ~g.rag_engine.vector_store.present
                ELSE ~g.chatbot.vector_store.present
  IN /\ app = "simple_api"
     /\ server = "serving"
     /\ rag_engine' = g.rag_engine
     /\ chatbot' = g.chatbot
     /\ engine_mode' = g.engine_mode
     /\ engine_initialized' = TRUE
     /\ last' =
          IF llm_path /\ r.sources # {}
          THEN Handled("simple_api", question, 500,
                       [r EXCEPT !.answer = "validation_error"], absent, so)
          ELSE Handled("simple_api", question, 200, r, absent, so)
     /\ UNCHANGED <<app, use_llm, embedOK, llmOK, server, pipeline, vector_store>>
     /\ UNCHANGED <<ingestVars, functionVars, tpc, constructed>>

\* The questions `not question or not question.strip()` is true of.
BlankQuestions == {<<>>, <<" ">>, <<" ", "\n">>}

\* simple_api.py ask_question / ask_question_get with a blank question:
\* get_engine() runs first; the HTTPException(400) is raised inside the
\* handler's `try`, and its `except Exception` turns it into a 500.
SimpleAskBlank(question) ==
  LET g == get_engine
      llm_path == g.engine_mode = "llm" /\ g.rag_engine.present
      absent == IF llm_path THEN ~g.rag_engine.vector_store.present
                ELSE ~g.chatbot.vector_store.present
  IN /\ app = "simple_api"
     /\ server = "serving"
     /\ rag_engine' = g.rag_engine
     /\ chatbot' = g.chatbot
     /\ engine_mode' = g.engine_mode
     /\ engine_initialized' = TRUE
     /\ last' = Handled("simple_api", question, 500,
                        Plain("question_empty", "none", TRUE, <<>>), absent, "empty")
     /\ UNCHANGED <<app, use_llm, embedOK, llmOK, server, pipeline, vector_store>>
     /\ UNCHANGED <<ingestVars, functionVars, tpc, constructed>>

\* get_rag_engine without its `if _rag_engine is None` test: a new engine on
\* every request.
get_rag_engine_renewed ==
  LET e == NewEngine(embedOK, persisted, use_llm, llmOK)
  IN IF ~use_llm \/ e.raised THEN NoEngine ELSE e.value

\* retrieval_api.py get_rag_engine, run to its end: the _rag_engine it leaves.
get_rag_engine ==
  LET e == NewEngine(embedOK, persisted, use_llm, llmOK)
  IN IF ~use_llm THEN NoEngine
     ELSE IF rag_engine.present THEN rag_engine
     ELSE IF e.raised THEN NoEngine
     ELSE e.value

\* retrieval_api.py get_vector_store, given a pipeline: the store held, or what
\* load_vector_store returns now; the result is kept in _vector_store, None
\* included.
get_vector_store ==
  IF vector_store.present THEN vector_store
  ELSE load_vector_store(persisted).value

\* retrieval_api.py health (GET /health). get_vector_store() raises when
\* DataIngestionPipeline() cannot be built.
RetrievalHealth ==
  LET vs == get_vector_store
  IN /\ app = "retrieval_api"
     /\ server = "serving"
     /\ IF ~vector_store.present /\ ~pipeline /\ ~embedOK
        THEN /\ last' = Handled("retrieval_api/health", <<>>, 500,
                                Plain("unhandled_exception", "none", TRUE, <<>>),
                                TRUE, "empty")
             /\ UNCHANGED <<pipeline, vector_store>>
        ELSE /\ pipeline' = (pipeline \/ ~vector_store.present)
             /\ vector_store' = vs
             /\ last' = Handled("retrieval_api/health", <<>>, 200,
                                Plain(IF vs.present THEN "healthy" ELSE "vector_db_missing",
                                      "none", TRUE, <<>>),
                                ~vs.present, "empty")
     /\ UNCHANGED <<app, use_llm, embedOK, llmOK, server, rag_engine, chatbot,
                    engine_mode, engine_initialized>>
     /\ UNCHANGED <<ingestVars, functionVars, tpc, constructed>>

\* retrieval_api.py ask (POST /ask), for a question that is not blank.
\* get_vector_store() raises when DataIngestionPipeline() cannot be built.
RetrievalAsk(question, lang, dl, so, lo) ==
  LET language == IF lang = "none" THEN "en" ELSE lang
      vs == get_vector_store
      rag == get_rag_engine
      r == answer_question(rag, question, lang, dl, so, lo)
      search == <<"similarity_search">>
  IN /\ app = "retrieval_api"
     /\ server = "serving"
     /\ IF ~vector_store.present /\ ~pipeline /\ ~embedOK
        THEN /\ last' = Handled("retrieval_api", question, 500,
                                Plain("unhandled_exception", language, TRUE, <<>>),
                                TRUE, so)
             /\ UNCHANGED <<pipeline, vector_store, rag_engine>>
        ELSE /\ pipeline' = (pipeline \/ ~vector_store.present)
             /\ vector_store' = vs
             /\ rag_engine' = IF use_llm THEN rag ELSE rag_engine
             /\ last' =
                  IF use_llm /\ rag.present
                  THEN Handled("retrieval_api", question, 200, r,
                               ~rag.vector_store.present, so)
                  ELSE IF ~vs.present
                  THEN Handled("retrieval_api", question, 500,
                               Plain("vector_db_not_found", language, TRUE, <<>>),
                               TRUE, so)
                  ELSE IF so = "raises"
                  THEN Handled("retrieval_api", question, 500,
                               Plain("search_error", language, TRUE, search), FALSE, so)
                  ELSE IF so = "empty"
                  THEN Handled("retrieval_api", question, 200,
                               Plain("no_info", language, TRUE, search), FALSE, so)
                  ELSE Handled("retrieval_api", question, 200,
                               [Plain("passages", language, TRUE, search)
                                  EXCEPT !.sources = vs.docs], FALSE, so)
     /\ UNCHANGED <<app, use_llm, embedOK, llmOK, server, chatbot, engine_mode,
                    engine_initialized>>
     /\ UNCHANGED <<ingestVars, functionVars, tpc, constructed>>

\* ingest.py runs to a successful end over the data folder.
IngestRuns ==
  LET c == split_documents(load_all_documents(folderExists, files))
  IN /\ c # {}
     /\ persisted # save_vector_store(Store(c, c))
     /\ persisted' = save_vector_store(Store(c, c))
     /\ UNCHANGED <<folderExists, files, pc, force, before, documents, chunks,
                    calls, again, result>>
     /\ UNCHANGED <<serveVars, functionVars>>

\* The persisted index is deleted.
IndexRemoved ==
  /\ persisted.dir
  /\ persisted' = NoIndex
  /\ UNCHANGED <<folderExists, files, pc, force, before, documents, chunks,
                 calls, again, result>>
  /\ UNCHANGED <<serveVars, functionVars>>

NextServe ==
  \/ ApiStartup
  \/ \E q \in Questions, dl \in DetectedLanguages, so \in SearchOutcomes,
        lo \in LlmOutcomes : ApiAsk(q, dl, so, lo)
  \/ \E q \in Questions, lang \in RequestLanguages, dl \in DetectedLanguages,
        so \in SearchOutcomes, lo \in LlmOutcomes : SimpleAsk(q, lang, dl, so, lo)
  \/ \E q \in BlankQuestions : SimpleAskBlank(q)
  \/ \E q \in Questions, lang \in RequestLanguages, dl \in DetectedLanguages,
        so \in SearchOutcomes, lo \in LlmOutcomes : RetrievalAsk(q, lang, dl, so, lo)
  \/ RetrievalHealth
  \/ IngestRuns
  \/ IndexRemoved

\* ------------------------------------------ concurrent lazy initialisation
\* simple_api.py and retrieval_api.py declare their handlers with `def`, so
\* the server runs each request on a thread of its pool; a thread can be
\* preempted between any two statements of get_pipeline / get_vector_store /
\* get_engine, which take no lock.
\* retrieval_api.py get_vector_store: `if _vector_store is None`.
VectorStoreCheck(t) ==
  /\ app = "retrieval_api"
  /\ tpc[t] = "idle"
  /\ tpc' = [tpc EXCEPT ![t] = IF vector_store.present THEN "idle" ELSE "get_pipeline"]
  /\ UNCHANGED <<app, use_llm, embedOK, llmOK, server, rag_engine, chatbot,
                 engine_mode, engine_initialized, pipeline, vector_store, last,
                 constructed>>
  /\ UNCHANGED <<ingestVars, functionVars>>

\* retrieval_api.py get_pipeline: `if _pipeline is None`.
PipelineCheck(t) ==
  /\ tpc[t] = "get_pipeline"
  /\ tpc' = [tpc EXCEPT ![t] = IF pipeline THEN "load" ELSE "construct"]
  /\ UNCHANGED <<app, use_llm, embedOK, llmOK, server, rag_engine, chatbot,
                 engine_mode, engine_initialized, pipeline, vector_store, last,
                 constructed>>
  /\ UNCHANGED <<ingestVars, functionVars>>

\* retrieval_api.py get_pipeline: `_pipeline = DataIngestionPipeline()`; the
\* exception of a failed model load ends the request.
PipelineConstruct(t) ==
  /\ tpc[t] = "construct"
  /\ IF embedOK
     THEN /\ pipeline' = TRUE
          /\ constructed' = [constructed EXCEPT !.pipeline = @ + 1]
          /\ tpc' = [tpc EXCEPT ![t] = "load"]
     ELSE /\ tpc' = [tpc EXCEPT ![t] = "idle"]
          /\ UNCHANGED <<pipeline, constructed>>
  /\ UNCHANGED <<app, use_llm, embedOK, llmOK, server, rag_engine, chatbot,
                 engine_mode, engine_initialized, vector_store, last>>
  /\ UNCHANGED <<ingestVars, functionVars>>

\* retrieval_api.py get_vector_store: `_vector_store = pipeline.load_vector_store()`.
VectorStoreLoad(t) ==
  /\ tpc[t] = "load"
  /\ vector_store' = load_vector_store(persisted).value
  /\ tpc' = [tpc EXCEPT ![t] = "idle"]
  /\ UNCHANGED <<app, use_llm, embedOK, llmOK, server, rag_engine, chatbot,
                 engine_mode, engine_initialized, pipeline, last, constructed>>
  /\ UNCHANGED <<ingestVars, functionVars>>

\* simple_api.py get_engine: `if engine_initialized: return`.
EngineCheck(t) ==
  /\ app = "simple_api"
  /\ tpc[t] = "idle"
  /\ tpc' = [tpc EXCEPT ![t] = IF engine_initialized THEN "idle" ELSE "try"]
  /\ UNCHANGED <<app, use_llm, embedOK, llmOK, server, rag_engine, chatbot,
                 engine_mode, engine_initialized, pipeline, vector_store, last,
                 constructed>>
  /\ UNCHANGED <<ingestVars, functionVars>>

\* simple_api.py get_engine, the try block: `rag_engine = MultilingualRAGEngine()`
\* or `chatbot = SimpleChatbot()`.
EngineTry(t) ==
  LET e == NewEngine(embedOK, persisted, use_llm, llmOK)
  IN /\ tpc[t] = "try"
     /\ IF use_llm /\ e.raised
        THEN /\ tpc' = [tpc EXCEPT ![t] = "except"]
             /\ UNCHANGED <<rag_engine, chatbot, constructed>>
        ELSE IF use_llm
        THEN /\ rag_engine' = e.value
             /\ constructed' = [constructed EXCEPT !.engine = @ + 1]
             /\ tpc' = [tpc EXCEPT ![t] = "initialized"]
             /\ UNCHANGED chatbot
        ELSE /\ chatbot' = NewChatbot(embedOK, persisted)
             /\ constructed' = [constructed EXCEPT !.chatbot = @ + 1]
             /\ tpc' = [tpc EXCEPT ![t] = "initialized"]
             /\ UNCHANGED rag_engine
     /\ UNCHANGED <<app, use_llm, embedOK, llmOK, server, engine_mode,
                    engine_initialized, pipeline, vector_store, last>>
     /\ UNCHANGED <<ingestVars, functionVars>>

\* simple_api.py get_engine, the except block: `engine_mode = "simple"`.
EngineExceptMode(t) ==
  /\ tpc[t] = "except"
  /\ engine_mode' = "simple"
  /\ tpc' = [tpc EXCEPT ![t] = "fallback"]
  /\ UNCHANGED <<app, use_llm, embedOK, llmOK, server, rag_engine, chatbot,
                 engine_initialized, pipeline, vector_store, last, constructed>>
  /\ UNCHANGED <<ingestVars, functionVars>>

\* The except block of get_engine without its `chatbot = SimpleChatbot()`.
EngineExceptWithoutChatbot(t) ==
  /\ tpc[t] = "fallback"
  /\ tpc' = [tpc EXCEPT ![t] = "initialized"]
  /\ UNCHANGED <<app, use_llm, embedOK, llmOK, server, rag_engine, chatbot,
                 engine_mode, engine_initialized, pipeline, vector_store, last,
                 constructed>>
  /\ UNCHANGED <<ingestVars, functionVars>>

\* simple_api.py get_engine, the except block: `chatbot = SimpleChatbot()`.
EngineExceptChatbot(t) ==
  /\ tpc[t] = "fallback"
  /\ chatbot' = NewChatbot(embedOK, persisted)
  /\ constructed' = [constructed EXCEPT !.chatbot = @ + 1]
  /\ tpc' = [tpc EXCEPT ![t] = "initialized"]
  /\ UNCHANGED <<app, use_llm, embedOK, llmOK, server, rag_engine, engine_mode,
                 engine_initialized, pipeline, vector_store, last>>
  /\ UNCHANGED <<ingestVars, functionVars>>

\* simple_api.py get_engine: `engine_initialized = True`.
EngineInitialized(t) ==
  /\ tpc[t] = "initialized"
  /\ engine_initialized' = TRUE
  /\ tpc' = [tpc EXCEPT ![t] = "idle"]
  /\ UNCHANGED <<app, use_llm, embedOK, llmOK, server, rag_engine, chatbot,
                 engine_mode, pipeline, vector_store, last, constructed>>
  /\ UNCHANGED <<ingestVars, functionVars>>

NextLazy ==
  \/ \E t \in Threads : VectorStoreCheck(t)
  \/ \E t \in Threads : PipelineCheck(t)
  \/ \E t \in Threads : PipelineConstruct(t)
  \/ \E t \in Threads : VectorStoreLoad(t)
  \/ \E t \in Threads : EngineCheck(t)
  \/ \E t \in Threads : EngineTry(t)
  \/ \E t \in Threads : EngineExceptMode(t)
  \/ \E t \in Threads : EngineExceptChatbot(t)
  \/ \E t \in Threads : EngineInitialized(t)
  \/ IngestRuns
  \/ IndexRemoved

\* --------------------------------------- one retrieval call, with its order
\* The similarity of each entry of the store to the question of a call.
Scores == {0, 1, 2}
Similarities == [Files -> Scores]

Min(a, b) == IF a <= b THEN a ELSE b

\* The entries of `entries`, most similar first (equally similar entries in
\* the order in which they were added to the index).
RECURSIVE Ranked(_, _)
Ranked(entries, similarity) ==
  IF entries = {} THEN <<>>
  ELSE LET best == CHOOSE c \in entries :
                     \A d \in entries :
                       \/ similarity[c] > similarity[d]
                       \/ similarity[c] = similarity[d] /\ c <= d
       IN <<best>> \o Ranked(entries \ {best}, similarity)

\* FAISS.similarity_search(question, k): the k nearest entries of the index,
\* nearest first; all of them when the index holds fewer than k.
similarity_search(store, similarity, k) ==
  LET ranked == Ranked(store.docs, similarity)
  IN SubSeq(ranked, 1, Min(k, Len(ranked)))

\* get_relevant_documents that asks the store for one entry more than
\* top_k_results.
get_relevant_documents_ranked_wide(engine, similarity, k, so) ==
  IF ~engine.vector_store.present \/ so = "raises" THEN <<>>
  ELSE similarity_search(engine.vector_store, similarity, k + 1)

\* MultilingualRAGEngine.get_relevant_documents, with the order of the list it
\* returns: the list of similarity_search(question, k = top_k_results) as it
\* is, [] without a vector store or when the search raises.
get_relevant_documents_ranked(engine, similarity, k, so) ==
  IF ~engine.vector_store.present THEN <<>>
  ELSE IF so = "raises" THEN <<>>
  ELSE similarity_search(engine.vector_store, similarity, k)

\* A running engine is asked for the documents relevant to a question.
Retrieve(similarity, so) ==
  /\ rag_engine.present
  /\ ~retrieved.done
  /\ retrieved' = [done |-> TRUE, similarity |-> similarity, outcome |-> so,
                   docs |-> get_relevant_documents_ranked(rag_engine, similarity,
                                                          top_k_results, so)]
  /\ UNCHANGED <<top_k_results, input, default_language, out>>
  /\ UNCHANGED <<ingestVars, serveVars, chunkVars>>

\* The caller is done with the list; the engine waits for the next question.
NextQuestion ==
  /\ retrieved.done
  /\ retrieved' = NotRetrieved
  /\ UNCHANGED <<top_k_results, input, default_language, out>>
  /\ UNCHANGED <<ingestVars, serveVars, chunkVars>>

NextSearch ==
  \/ \E similarity \in Similarities, so \in {"docs", "raises"} : Retrieve(similarity, so)
  \/ NextQuestion

RetrievedSet == {retrieved.docs[i] : i \in 1..Len(retrieved.docs)}

\* C13: the list a retrieval returns is ordered by non-increasing similarity
\* to the question, has no entry twice and at most top_k_results entries, all
\* of them entries of the index, and holds every entry of the index when the
\* index has fewer than top_k_results.
C13_RankedTopK ==
  (retrieved.done /\ retrieved.outcome = "docs" /\ rag_engine.vector_store.present) =>
    /\ Len(retrieved.docs) <= top_k_results
    /\ Cardinality(RetrievedSet) = Len(retrieved.docs)
    /\ RetrievedSet \subseteq rag_engine.vector_store.docs
    /\ \A i \in 1..Len(retrieved.docs) : \A j \in i..Len(retrieved.docs) :
         retrieved.similarity[retrieved.docs[i]] >= retrieved.similarity[retrieved.docs[j]]
    /\ Cardinality(rag_engine.vector_store.docs) < top_k_results =>
         RetrievedSet = rag_engine.vector_store.docs
    /\ Cardinality(rag_engine.vector_store.docs) >= top_k_results =>
         Len(retrieved.docs) = top_k_results

\* A store larger than k was searched, and the similarities differed.
C13_Witness ==
  /\ retrieved.done
  /\ retrieved.outcome = "docs"
  /\ Cardinality(rag_engine.vector_store.docs) > top_k_results
  /\ Len(retrieved.docs) = top_k_results
  /\ Len(retrieved.docs) >= 2
  /\ retrieved.similarity[retrieved.docs[1]] > retrieved.similarity[retrieved.docs[2]]

\* --------------------------------------- language_utils.py: LanguageDetector
\* The characters str.strip() removes.
Whitespace == {" ", "\t", "\n", "\r"}

\* Python's str.strip()
RECURSIVE strip(_)
strip(text) ==
  IF text = <<>> THEN text
  ELSE IF Head(text) \in Whitespace THEN strip(Tail(text))
  ELSE IF text[Len(text)] \in Whitespace THEN strip(SubSeq(text, 1, Len(text) - 1))
  ELSE text

\* What langdetect.detect(text) may do: return a language code (of a supported
\* language or of another one), raise LangDetectException, or raise another
\* exception.
DetectorOutcomes == {"en", "hi", "te", "kn", "fr", "LangDetectException", "Exception"}
DetectorRaises == {"LangDetectException", "Exception"}

LANGDETECT_TO_ISO == [code \in {"en", "hi", "te", "kn"} |-> code]

\* detect_language that tests `not text` only, without text.strip().
detect_language_unstripped(text, default, detected) ==
  IF text = <<>>
  THEN [language |-> default, invoked |-> FALSE, raised |-> FALSE]
  ELSE IF detected \in DetectorRaises
  THEN [language |-> default, invoked |-> TRUE, raised |-> FALSE]
  ELSE [language |-> IF detected \in SupportedLanguages THEN detected ELSE default,
        invoked |-> TRUE, raised |-> FALSE]

\* detect_language that catches LangDetectException only.
detect_language_one_except(text, default, detected) ==
  IF text = <<>> \/ strip(text) = <<>>
  THEN [language |-> default, invoked |-> FALSE, raised |-> FALSE]
  ELSE IF detected = "LangDetectException"
  THEN [language |-> default, invoked |-> TRUE, raised |-> FALSE]
  ELSE IF detected = "Exception"
  THEN [language |-> "none", invoked |-> TRUE, raised |-> TRUE]
  ELSE [language |-> IF detected \in SupportedLanguages THEN detected ELSE default,
        invoked |-> TRUE, raised |-> FALSE]

\* LanguageDetector.detect_language. default: self.default_language; detected:
\* what langdetect.detect does when it is called on this text.
detect_language(text, default, detected) ==
  IF text = <<>> \/ strip(text) = <<>>
  THEN [language |-> default, invoked |-> FALSE, raised |-> FALSE]
  ELSE IF detected \in DetectorRaises
  THEN [language |-> default, invoked |-> TRUE, raised |-> FALSE]
  ELSE LET iso_code == IF detected \in DOMAIN LANGDETECT_TO_ISO
                       THEN LANGDETECT_TO_ISO[detected] ELSE detected
       IN [language |-> IF iso_code \in SupportedLanguages THEN iso_code ELSE default,
           invoked |-> TRUE, raised |-> FALSE]

\* ------------------------------------------- one call of a text function
\* The words a text is put together from.
I_AM_GOD == <<"I"," ","a","m"," ","G","o","d">>
i_am_god == <<"i"," ","a","m"," ","g","o","d">>
CURE == <<"c","u","r","e">>
LAWYER == <<"L","a","w","y","e","r">>
WILLING == <<"w","i","l","l","i","n","g">>
FORTUNE == <<"f","o","r","t","u","n","e">>
FAITH == <<"f","a","i","t","h">>
IDK == <<"I"," ","d","o","n","'","t"," ","k","n","o","w">>
\* Texts a call may start from: 40 and 50 characters without any keyword, and
\* two predictive phrases.
FILLER ==
  <<"S","a","i"," ","B","a","b","a"," ","t","e","a","c","h","e","s"," ","l","o","v","e"," ","a","n","d"," ","s","e","r","v","i","c","e"," ","t","o"," ","a","l","l">>
LONG ==
  <<"L","o","v","e"," ","a","l","l",","," ","s","e","r","v","e"," ","a","l","l","."," ","H","e","l","p">> \o
  <<" ","e","v","e","r",","," ","h","u","r","t"," ","n","e","v","e","r","."," ","O","m"," ","S","a","i">>
WHEN_WILL == <<"W","h","e","n"," ","w","i","l","l">>
WILL_HAPPEN == <<"w","i","l","l"," ","h","a","p","p","e","n">>
Texts == {<<>>, <<QCure>>, <<QPurpose>>, <<FILLER>>, <<LONG>>, <<WHEN_WILL>>, <<WILL_HAPPEN>>}

Words == {<<" ">>, <<"\n">>, I_AM_GOD, i_am_god, CURE, LAWYER, WILLING, FORTUNE, FAITH, IDK}

\* The values DEFAULT_LANGUAGE may be set to in the environment.
DefaultLanguages == {"en", "hi", "fr"}

\* The text made of the words of `words`.
RECURSIVE Text(_)
Text(words) == IF words = <<>> THEN <<>> ELSE Head(words) \o Text(Tail(words))

\* A word is added to the text.
Type(w) ==
  /\ out = NoOutput
  /\ Len(input) < MaxWords
  /\ input' = Append(input, w)
  /\ UNCHANGED <<top_k_results, retrieved, default_language, out>>
  /\ UNCHANGED <<ingestVars, serveVars, chunkVars>>

\* SafetyFilter.is_prohibited_topic(text)
CallFilter ==
  /\ out = NoOutput
  /\ out' = [NoOutput EXCEPT !.op = "is_prohibited_topic",
                             !.warning = is_prohibited_topic(Text(input))]
  /\ UNCHANGED <<top_k_results, retrieved, input, default_language>>
  /\ UNCHANGED <<ingestVars, serveVars, chunkVars>>

\* SafetyFilter.sanitize_response(text)
CallSanitize ==
  /\ out = NoOutput
  /\ out' = [NoOutput EXCEPT !.op = "sanitize_response",
                             !.response = sanitize_response(Text(input))]
  /\ UNCHANGED <<top_k_results, retrieved, input, default_language>>
  /\ UNCHANGED <<ingestVars, serveVars, chunkVars>>

\* LanguageDetector.detect_language(text)
CallDetect(detected) ==
  LET r == detect_language(Text(input), default_language, detected)
  IN /\ out = NoOutput
     /\ out' = [NoOutput EXCEPT !.op = "detect_language",
                                !.language = r.language,
                                !.invoked = r.invoked,
                                !.raised = r.raised,
                                !.detector = IF r.invoked THEN detected ELSE "none"]
     /\ UNCHANGED <<top_k_results, retrieved, input, default_language>>
     /\ UNCHANGED <<ingestVars, serveVars, chunkVars>>

\* The call has returned; the next call is made on the same or a longer text.
Return ==
  /\ out # NoOutput
  /\ out' = NoOutput
  /\ UNCHANGED <<top_k_results, retrieved, input, default_language>>
  /\ UNCHANGED <<ingestVars, serveVars, chunkVars>>

NextText ==
  \/ \E w \in Words : Type(w)
  \/ CallFilter
  \/ CallSanitize
  \/ \E detected \in DetectorOutcomes : CallDetect(detected)
  \/ Return

\* ------------------------------- ingest.py: the text splitter of the pipeline
\* The separators without the last one, "".
SeparatorsWithoutCharacters == << <<"\n", "\n">>, <<"\n">>, <<".", " ">>, <<" ">> >>

\* separators=["\n\n", "\n", ". ", " ", ""] of the RecursiveCharacterTextSplitter
Separators == << <<"\n", "\n">>, <<"\n">>, <<".", " ">>, <<" ">>, <<>> >>

\* re.split with the separator kept: the text before the first separator, then
\* each separator with the text that follows it.
RECURSIVE SplitKeeping(_, _, _)
SplitKeeping(text, separator, piece) ==
  IF text = <<>> THEN <<piece>>
  ELSE IF Len(text) >= Len(separator) /\ SubSeq(text, 1, Len(separator)) = separator
  THEN <<piece>> \o SplitKeeping(SubSeq(text, Len(separator) + 1, Len(text)),
                                separator, separator)
  ELSE SplitKeeping(Tail(text), separator, Append(piece, Head(text)))

\* _split_text_with_regex(text, separator, keep_separator=True): the pieces that
\* are not empty; the characters of the text for the separator "".
split_text_with_regex(text, separator) ==
  IF separator = <<>> THEN [i \in 1..Len(text) |-> <<text[i]>>]
  ELSE SelectSeq(SplitKeeping(text, separator, <<>>), LAMBDA piece : piece # <<>>)

\* _join_docs: the pieces joined and stripped, as a list of one chunk, or of
\* none when nothing is left.
join_docs(docs) ==
  IF strip(Text(docs)) = <<>> THEN <<>> ELSE <<strip(Text(docs))>>

\* The popping loop of _merge_splits that keeps nothing for the next chunk.
PopAll(current_doc, len, size, overlap) == <<>>

\* The popping loop of _merge_splits: pieces are dropped from the front of the
\* chunk just emitted while more than chunk_overlap characters are left, or
\* the next piece does not fit.
RECURSIVE Pop(_, _, _, _)
Pop(current_doc, len, size, overlap) ==
  LET total == Len(Text(current_doc))
  IN IF total > overlap \/ (total + len > size /\ total > 0)
     THEN Pop(Tail(current_doc), len, size, overlap)
     ELSE current_doc

\* _merge_splits(splits, separator = ""): pieces are collected into a chunk
\* until the next one would make it longer than chunk_size.
RECURSIVE merge_splits(_, _, _, _)
merge_splits(splits, current_doc, size, overlap) ==
  IF splits = <<>> THEN join_docs(current_doc)
  ELSE LET d == Head(splits)
           full == Len(Text(current_doc)) + Len(d) > size /\ current_doc # <<>>
           kept == IF full THEN Pop(current_doc, Len(d), size, overlap)
                   ELSE current_doc
       IN (IF full THEN join_docs(current_doc) ELSE <<>>)
          \o merge_splits(Tail(splits), Append(kept, d), size, overlap)

\* RecursiveCharacterTextSplitter._split_text: the text is split at the first
\* separator of the list that occurs in it; pieces shorter than chunk_size are
\* merged, a longer piece is split again with the separators that follow.
RECURSIVE split_text(_, _, _, _)
RECURSIVE MergeOrSplit(_, _, _, _, _)
MergeOrSplit(splits, good_splits, new_separators, size, overlap) ==
  LET merged == IF good_splits # <<>>
                THEN merge_splits(good_splits, <<>>, size, overlap) ELSE <<>>
  IN IF splits = <<>> THEN merged
     ELSE IF Len(Head(splits)) < size
     THEN MergeOrSplit(Tail(splits), Append(good_splits, Head(splits)),
                       new_separators, size, overlap)
     ELSE merged
          \o (IF new_separators = <<>> THEN <<Head(splits)>>
              ELSE split_text(Head(splits), new_separators, size, overlap))
          \o MergeOrSplit(Tail(splits), <<>>, new_separators, size, overlap)

split_text(text, separators, size, overlap) ==
  LET found == {i \in 1..Len(separators) :
                  separators[i] = <<>> \/ Contains(text, separators[i])}
      n == IF found = {} THEN Len(separators)
           ELSE CHOOSE i \in found : \A j \in found : i <= j
      separator == separators[n]
      new_separators == IF found = {} \/ separator = <<>> THEN <<>>
                        ELSE SubSeq(separators, n + 1, Len(separators))
  IN MergeOrSplit(split_text_with_regex(text, separator), <<>>, new_separators,
                  size, overlap)

\* DataIngestionPipeline.split_documents on one document: the chunks of its
\* page_content, in order.
split_document(text, size, overlap) ==
  IF text = <<>> THEN <<>> ELSE split_text(text, Separators, size, overlap)

\* ----------------------------------------- one document through the splitter
Devotion == <<"D","e","v","o","t","i","o","n"," ","i","s"," ","t","h","e"," ","p","a","t","h"," ","o","f"," ","l","o","v","e",".">>

\* The chunks of the worked example: as the specification gives them, and as
\* the splitter makes them.
DevotionIsThePat == <<"D","e","v","o","t","i","o","n"," ","i","s"," ","t","h","e"," ","p","a","t">>
ThePathOfLove == <<"t","h","e"," ","p","a","t","h"," ","o","f"," ","l","o","v","e",".">>
DevotionIsThePath == <<"D","e","v","o","t","i","o","n"," ","i","s"," ","t","h","e"," ","p","a","t","h">>
PathOfLove == <<"p","a","t","h"," ","o","f"," ","l","o","v","e",".">>

\* The pieces a document is written from.
BC == <<"b", "c">>
Pieces == {<<"a">>, BC, <<" ">>, <<"\n">>, <<".", " ">>}

\* The valid settings of CHUNK_SIZE and CHUNK_OVERLAP the model runs with.
ChunkSettings ==
  {[size |-> 20, overlap |-> 5]}
    \cup {[size |-> sz, overlap |-> ov] : sz \in 1..MaxChunkSize, ov \in 0..(MaxChunkSize - 1)}

\* A piece of text is added to the document.
Write(piece) ==
  /\ ~chunked.done
  /\ Len(page_content) < MaxPieces
  /\ page_content' = Append(page_content, piece)
  /\ UNCHANGED <<chunk_size, chunk_overlap, chunked>>
  /\ UNCHANGED <<top_k_results, retrieved, input, default_language, out>>
  /\ UNCHANGED <<ingestVars, serveVars>>

\* split_documents([document])
Split ==
  /\ ~chunked.done
  /\ chunked' = [done |-> TRUE,
                 chunks |-> split_document(Text(page_content), chunk_size, chunk_overlap)]
  /\ UNCHANGED <<chunk_size, chunk_overlap, page_content>>
  /\ UNCHANGED <<top_k_results, retrieved, input, default_language, out>>
  /\ UNCHANGED <<ingestVars, serveVars>>

\* The chunks are handed on; the document may be edited and split again.
NextDocument ==
  /\ chunked.done
  /\ chunked' = NotChunked
  /\ UNCHANGED <<chunk_size, chunk_overlap, page_content>>
  /\ UNCHANGED <<top_k_results, retrieved, input, default_language, out>>
  /\ UNCHANGED <<ingestVars, serveVars>>

NextChunk ==
  \/ \E piece \in Pieces : Write(piece)
  \/ Split
  \/ NextDocument

\* ---------------------------------------- properties of the text splitter
Chunks == chunked.chunks

\* The document is the sentence of the worked example, split with
\* chunk_size 20 and chunk_overlap 5.
WorkedExample ==
  /\ chunked.done
  /\ page_content = <<Devotion>>
  /\ chunk_size = 20
  /\ chunk_overlap = 5

\* C22: with chunk_size > 0 and 0 <= chunk_overlap < chunk_size every chunk
\* has between 1 and chunk_size characters, and an empty text gives no chunk.
C22_ChunkLengthBounded ==
  chunked.done =>
    /\ \A i \in 1..Len(Chunks) : Len(Chunks[i]) >= 1 /\ Len(Chunks[i]) <= chunk_size
    /\ Text(page_content) = <<>> => Chunks = <<>>

\* A text longer than chunk_size without any separator was cut into chunks.
C22_Witness ==
  /\ chunked.done
  /\ page_content = <<BC, BC, BC>>
  /\ chunk_size = 2
  /\ Len(Chunks) = 3

OccursIn(k, text) ==
  \E i \in 0..Len(text) :
    /\ i + Len(k) <= Len(text)
    /\ \A m \in 1..Len(k) : text[i + m] = k[m]

\* Some keyword of the list occurs in the lowercased text.
Mentions(keywords, text) ==
  \E n \in DOMAIN keywords : OccursIn(keywords[n], lower(text))

FilterCalled == out.op = "is_prohibited_topic"

\* C15: is_prohibited_topic returns a warning exactly when the lowercased
\* question contains a medical, legal or predictive keyword as a substring,
\* word boundaries or not; "Can you cure my diabetes?" gets the medical
\* warning, "What is the purpose of life?" gets none, and "willing" gets a
\* warning for the "will" inside it.
C15_WarningIffKeyword ==
  FilterCalled =>
    /\ out.warning # "none" <=>
         \/ Mentions(MEDICAL_KEYWORDS, Text(input))
         \/ Mentions(LEGAL_KEYWORDS, Text(input))
         \/ Mentions(PREDICTIVE_KEYWORDS, Text(input))
    /\ input = <<QCure>> => out.warning = "medical_warning"
    /\ input = <<QPurpose>> => out.warning = "none"
    /\ input = <<WILLING>> => out.warning # "none"

\* A keyword typed with a capital, inside a longer text, was found.
C15_Witness ==
  /\ FilterCalled
  /\ input = <<FAITH, LAWYER>>
  /\ out.warning = "legal_warning"

\* C16: when keywords of several categories occur, the warning is that of the
\* first category in the order medical, legal, predictive.
C16_FirstCategoryWins ==
  FilterCalled =>
    /\ Mentions(MEDICAL_KEYWORDS, Text(input)) => out.warning = "medical_warning"
    /\ (/\ ~Mentions(MEDICAL_KEYWORDS, Text(input))
        /\ Mentions(LEGAL_KEYWORDS, Text(input))) => out.warning = "legal_warning"
    /\ (/\ ~Mentions(MEDICAL_KEYWORDS, Text(input))
        /\ ~Mentions(LEGAL_KEYWORDS, Text(input))
        /\ Mentions(PREDICTIVE_KEYWORDS, Text(input))) => out.warning = "predictive_warning"

\* A legal keyword typed before a medical one: the medical warning.
C16_Witness ==
  /\ FilterCalled
  /\ input = <<LAWYER, CURE>>
  /\ out.warning = "medical_warning"

\* C17 as claimed: what sanitize_response returns contains no divine-claim
\* phrase, in whatever letter case.
C17_NoDivineClaimLeft ==
  out.op = "sanitize_response" =>
    \A n \in DOMAIN DIVINE_CLAIMS : ~OccursIn(DIVINE_CLAIMS[n], lower(out.response))

\* Every character of the text is whitespace (the empty text included).
Blank(text) == \A i \in 1..Len(text) : text[i] \in Whitespace

DetectCalled == out.op = "detect_language"

\* C18: on an empty or whitespace-only text detect_language returns the
\* configured default language and does not call the detector.
C18_BlankGivesDefault ==
  (DetectCalled /\ Blank(Text(input))) =>
    /\ out.language = default_language
    /\ ~out.invoked

C18_Witness ==
  /\ DetectCalled
  /\ Len(input) = 2
  /\ Blank(Text(input))
  /\ out.language = default_language

\* C19: detect_language never raises, and returns the configured default
\* language when the detector raises or returns a code that is not supported.
C19_DetectorFailureGivesDefault ==
  DetectCalled =>
    /\ ~out.raised
    /\ (out.invoked /\ out.detector \notin SupportedLanguages) =>
         out.language = default_language
    /\ (out.invoked /\ out.detector \in SupportedLanguages) =>
         out.language = out.detector

C19_Witness ==
  /\ DetectCalled
  /\ out.invoked
  /\ out.detector = "Exception"
  /\ out.language = default_language

\* C20 as claimed: whatever the text and whatever DEFAULT_LANGUAGE is set to,
\* detect_language returns one of the four supported codes.
C20_DetectedIsSupported ==
  DetectCalled => out.language \in SupportedLanguages

SanitizeCalled == out.op = "sanitize_response"

\* What sanitize_response returned ends with the disclaimer.
Appended ==
  /\ Len(out.response) >= Len(Disclaimer)
  /\ SubSeq(out.response, Len(out.response) - Len(Disclaimer) + 1, Len(out.response))
       = Disclaimer

\* The positions of what was returned at which the disclaimer begins.
DisclaimerAt ==
  {i \in 1..(Len(out.response) - Len(Disclaimer) + 1) :
     SubSeq(out.response, i, i + Len(Disclaimer) - 1) = Disclaimer}

\* What was returned, without the disclaimer at its end.
Body ==
  IF Appended
  THEN SubSeq(out.response, 1, Len(out.response) - Len(Disclaimer))
  ELSE out.response

\* The response as it was given holds "i don't know" in some letter case.
Uncertain == OccursIn(DontKnow, lower(Text(input)))

\* C24 as claimed: the disclaimer is appended, once, to every response shorter
\* than 50 characters and to a longer one that holds "i don't know" in any
\* letter case, and to no other.
C24_DisclaimerByGivenLength ==
  SanitizeCalled =>
    IF Len(Text(input)) < 50 \/ Uncertain
    THEN Appended /\ Cardinality(DisclaimerAt) = 1
    ELSE DisclaimerAt = {}

\* C24 as amended: the length that counts is that of the response after the
\* divine claims were replaced; the disclaimer is appended, once, when that is
\* below 50 characters or when the response as given holds "i don't know" in
\* any letter case, and otherwise not.
C24_DisclaimerByReplacedLength ==
  SanitizeCalled =>
    IF Len(Body) < 50 \/ Uncertain
    THEN Appended /\ Cardinality(DisclaimerAt) = 1
    ELSE DisclaimerAt = {}

\* A response of 48 characters that the replacement made 56 long: returned
\* without the disclaimer.
C24_Witness ==
  /\ SanitizeCalled
  /\ input = <<FILLER, i_am_god>>
  /\ Len(out.response) = 56
  /\ ~Appended

\* C30: the predictive warning is given only to a question with a predictive
\* keyword and no medical or legal keyword; a question that holds "will happen"
\* or "when will" holds the legal keyword "will" and gets the legal warning, or
\* the medical one, never the predictive one.
C30_PredictiveOnlyWithoutOthers ==
  FilterCalled =>
    /\ out.warning = "predictive_warning" =>
         /\ Mentions(PREDICTIVE_KEYWORDS, Text(input))
         /\ ~Mentions(MEDICAL_KEYWORDS, Text(input))
         /\ ~Mentions(LEGAL_KEYWORDS, Text(input))
    /\ (\/ OccursIn(lower(WILL_HAPPEN), lower(Text(input)))
        \/ OccursIn(lower(WHEN_WILL), lower(Text(input)))) =>
         out.warning \in {"legal_warning", "medical_warning"}

\* "When will" followed by a word without a keyword: the legal warning.
C30_Witness ==
  /\ FilterCalled
  /\ input = <<WHEN_WILL, FAITH>>
  /\ out.warning = "legal_warning"

\* ------------------------------------------- properties of the servers
\* The explicit signals that the knowledge base is missing or holds nothing
\* relevant.
NoInformationSignals == {"no_info", "kb_not_initialized", "vector_db_not_found"}

\* C1 as claimed: on every /ask path a similarity search is preceded by the
\* safety filter on the same question, and runs only for a question the
\* filter lets pass.
C1_SafetyGatesSearch ==
  last.path # "none" =>
    \A i \in 1..Len(last.trace) :
      last.trace[i] = "similarity_search" =>
        /\ \E j \in 1..(i - 1) : last.trace[j] = "is_prohibited_topic"
        /\ is_prohibited_topic(last.question) = "none"

\* C2 as claimed: under any interleaving of concurrent first requests a
\* process constructs its pipeline, its engine and its chatbot at most once.
C2_ConstructedOnce ==
  /\ constructed.pipeline <= 1
  /\ constructed.engine <= 1
  /\ constructed.chatbot <= 1

\* C3 as claimed: an answer given while no index is held, or after a search
\* that found nothing, is one of the explicit "no information" signals.
C3_NoIndexGivesNoInformation ==
  (/\ last.path # "none"
   /\ last.status = 200
   /\ is_prohibited_topic(last.question) = "none"
   /\ (last.store_absent \/ last.search = "empty")) =>
    last.answer \in NoInformationSignals

\* C4 as claimed: when the embedding model cannot be loaded, the startup of
\* api.py fails and the process does not come to serve.
C4_EmbeddingFailureStopsStartup ==
  (app = "api" /\ ~embedOK) => server # "serving"

\* The last request went through MultilingualRAGEngine.answer_question.
AnsweredByEngine == last.path # "none" /\ last.method = "rag"

SearchRan == \E i \in 1..Len(last.trace) : last.trace[i] = "similarity_search"

\* C11: an engine that holds no vector store answers every query from an
\* empty retrieval: no similarity search is invoked, nothing is raised (the
\* request ends with status 200), no source is returned, and a question the
\* filter lets pass gets the "not available" answer.
C11_NoStoreNoSearch ==
  (AnsweredByEngine /\ last.store_absent) =>
    /\ ~SearchRan
    /\ last.status = 200
    /\ last.sources = {}
    /\ SafetyFilter[last.question] = "none" => last.answer = "no_info"

C11_Witness ==
  /\ AnsweredByEngine
  /\ last.store_absent
  /\ last.answer = "no_info"

\* C12 as claimed: when the similarity search of a query raises, the request
\* still ends with a response, and that response is an empty result or a
\* failure indicator, never an answer with content.
C12_SearchFailureIsSurfaced ==
  (last.path # "none" /\ last.search = "raises") =>
    /\ last.status \in {200, 500}
    /\ last.answer \in {"no_info", "search_error"}
    /\ last.sources = {}

\* The in-memory stores of the serving process are kept by a step.
InMemoryKept ==
  /\ vector_store.present => vector_store' = vector_store
  /\ rag_engine.present => rag_engine'.vector_store = rag_engine.vector_store
  /\ chatbot.present => chatbot'.vector_store = chatbot.vector_store

C21_FilterBeforeDetector ==
  last.path # "none" =>
    \A i \in 1..Len(last.trace) :
      last.trace[i] = "detect_language" =>
        /\ \E j \in 1..(i - 1) : last.trace[j] = "is_prohibited_topic"
        /\ SafetyFilter[last.question] = "none"

\* C28: the engine of api.py reads the index only when it is constructed, at
\* startup: no later step gives it a store or changes the one it holds, and
\* while it holds none every /ask is answered "Knowledge base is not
\* initialized yet" (status 200, is_safe false), whether or not ingest.py has
\* built an index in the meantime.
C28_IndexReadOnlyAtConstruction ==
  [][(app = "api" /\ server = "serving") =>
       /\ rag_engine' = rag_engine
       /\ (last' # last /\ ~rag_engine.vector_store.present) =>
             /\ last'.path = "api"
             /\ last'.answer = "kb_not_initialized"
             /\ last'.status = 200
             /\ ~last'.is_safe]_vars

\* The index was built after the startup; the request is still answered
\* "not initialized".
C28_Witness ==
  /\ last.path = "api"
  /\ last.answer = "kb_not_initialized"
  /\ ~rag_engine.vector_store.present
  /\ Loadable(persisted)

\* A request of retrieval_api.py went through get_vector_store in this step.
RetrievalHandled ==
  /\ app = "retrieval_api"
  /\ last' # last
  /\ last'.answer # "unhandled_exception"

\* C29 as claimed: in retrieval_api.py, a /ask or /health handled while no
\* store is cached asks load_vector_store again (an index built since the last
\* request is found, and a missing one leaves the cache empty for the next
\* request to try again); once a store is cached it stays as it is, whatever
\* happens to the index on disk.
C29_RetryUntilLoaded ==
  [][/\ (app = "retrieval_api" /\ vector_store.present) =>
          vector_store' = vector_store
     /\ (RetrievalHandled /\ ~vector_store.present) =>
          vector_store'.present = Loadable(persisted)]_vars

\* C27: in simple_api, however the threads of concurrent first requests
\* interleave and whether or not the engine's initialisation fails,
\* engine_initialized is true only when a backend is there to answer: the RAG
\* engine with engine_mode "llm", or the chatbot; a thread about to set the
\* flag has already stored one.
C27_InitializedHasBackend ==
  LET backend == \/ engine_mode = "llm" /\ rag_engine.present
                 \/ chatbot.present
  IN /\ engine_initialized => backend
     /\ \A t \in Threads : tpc[t] = "initialized" => backend

\* Two threads both found the LLM engine failing, both fell back to a chatbot
\* of their own, and the flag is set.
C27_Witness ==
  /\ engine_initialized
  /\ use_llm /\ ~llmOK
  /\ engine_mode = "simple"
  /\ ~rag_engine.present
  /\ chatbot.present
  /\ constructed.chatbot = 2

\* The response of the last request is the result of answer_question as it
\* was returned.
EngineResult == AnsweredByEngine /\ last.status = 200

\* The outer `except Exception` of answer_question returned the apology.
ApologyReturned == EngineResult /\ last.answer = "apology"

\* C26 as claimed: answer_question returns a result with answer, language,
\* sources and is_safe for every outcome of the detector, the search and the
\* LLM, and the sources are empty whenever is_safe is false or an error was
\* caught.
C26_NoSourcesOnAnyError ==
  EngineResult =>
    /\ last.answer # "none" /\ last.language # "none"
    /\ (~last.is_safe \/ last.error) => last.sources = {}

\* C26 as amended: answer_question returns a result with answer, language,
\* sources and is_safe for every outcome of the detector, the search and the
\* LLM; the sources are empty whenever is_safe is false or the handler of the
\* last resort caught the error (the apology is the answer); when both LLM
\* invocations fail, the error is recorded and the answer made from the
\* retrieved documents is returned with those documents as its sources.
C26_NoSourcesOnRefusalOrApology ==
  EngineResult =>
    /\ last.answer # "none" /\ last.language # "none"
    /\ (~last.is_safe \/ ApologyReturned) => last.sources = {}
    /\ ApologyReturned => last.error /\ last.is_safe
    /\ (last.error /\ ~ApologyReturned) =>
          last.answer = "from_docs" /\ last.sources # {} /\ last.is_safe

\* The LLM's content could not be sanitized after documents were retrieved:
\* the apology, with no sources, and status 200.
C26_Witness ==
  /\ ApologyReturned
  /\ last.path = "api"
  /\ last.search = "docs"
  /\ last.sources = {}
  /\ last.status = 200

\* C25 as claimed: simple_api answers a POST or GET /ask whose question is
\* empty or only whitespace with status 400, and with no other status.
C25_BlankQuestionIs400 ==
  (last.path = "simple_api" /\ Blank(last.question)) => last.status = 400

\* ----------------------------------------------------------------- Init
\* No document is followed through the text splitter.
ChunkerIdle ==
  /\ chunk_size = 500
  /\ chunk_overlap = 50
  /\ page_content = <<>>
  /\ chunked = NotChunked

\* No call of a retrieval or text function is followed.
FunctionsIdle ==
  /\ top_k_results = 4
  /\ retrieved = NotRetrieved
  /\ input = <<>>
  /\ default_language = "en"
  /\ out = NoOutput
  /\ ChunkerIdle

\* No server process: the state of the serving variables while ingest.py runs.
ServeIdle ==
  /\ app = "none"
  /\ use_llm = FALSE
  /\ embedOK = TRUE
  /\ llmOK = TRUE
  /\ server = "failed"
  /\ rag_engine = NoEngine
  /\ chatbot = NoChatbot
  /\ engine_mode = "simple"
  /\ engine_initialized = FALSE
  /\ pipeline = FALSE
  /\ vector_store = None
  /\ last = NoRequest
  /\ tpc = [t \in Threads |-> "idle"]
  /\ constructed = NothingConstructed

\* A server process at module import: api.py still has its lifespan startup
\* to run; simple_api.py and retrieval_api.py serve at once.
InitServe ==
  /\ app \in {"api", "simple_api", "retrieval_api"}
  /\ use_llm \in BOOLEAN
  /\ embedOK \in BOOLEAN
  /\ llmOK \in BOOLEAN
  /\ server = IF app = "api" THEN "starting" ELSE "serving"
  /\ rag_engine = NoEngine
  /\ chatbot = NoChatbot
  /\ engine_mode = IF use_llm THEN "llm" ELSE "simple"
  /\ engine_initialized = FALSE
  /\ pipeline = FALSE
  /\ vector_store = None
  /\ last = NoRequest
  /\ tpc = [t \in Threads |-> "idle"]
  /\ constructed = NothingConstructed

\* The data folder of a deployment: every source file holds text.
InitFolder ==
  /\ folderExists = TRUE
  /\ files = [f \in Files |-> "text"]
  /\ persisted = NoIndex
  /\ pc = "idle"
  /\ force = FALSE
  /\ before = NoIndex
  /\ documents = {}
  /\ chunks = {}
  /\ calls = {}
  /\ again = FALSE
  /\ result = NoResult

Init == InitIngest /\ ServeIdle /\ FunctionsIdle

SpecIngest == Init /\ [][NextIngest]_vars

InitServing == InitFolder /\ InitServe /\ FunctionsIdle

SpecServe == InitServing /\ [][NextServe]_vars

\* simple_api.py or retrieval_api.py serving concurrent requests.
InitLazy == InitFolder /\ InitServe /\ FunctionsIdle /\ app # "api"

SpecLazy == InitLazy /\ [][NextLazy]_vars

\* One engine of a running server, holding the index of some data folder, with
\* TOP_K_RESULTS set to some positive number.
InitSearch ==
  /\ InitFolder
  /\ app = "api"
  /\ use_llm = FALSE
  /\ embedOK = TRUE
  /\ llmOK = TRUE
  /\ server = "serving"
  /\ \E entries \in SUBSET Files :
       rag_engine = [present |-> TRUE, pipeline |-> TRUE,
                     vector_store |-> IF entries = {} THEN None
                                      ELSE Store(entries, entries),
                     llm |-> FALSE]
  /\ chatbot = NoChatbot
  /\ engine_mode = "simple"
  /\ engine_initialized = FALSE
  /\ pipeline = FALSE
  /\ vector_store = None
  /\ last = NoRequest
  /\ tpc = [t \in Threads |-> "idle"]
  /\ constructed = NothingConstructed
  /\ top_k_results \in 1..MaxK
  /\ retrieved = NotRetrieved
  /\ input = <<>>
  /\ default_language = "en"
  /\ out = NoOutput
  /\ ChunkerIdle

SpecSearch == InitSearch /\ [][NextSearch]_vars

\* A process in which the text functions are called: DEFAULT_LANGUAGE is set to
\* some value, and the first text is empty, a question or a longer text.
InitText ==
  /\ InitFolder
  /\ ServeIdle
  /\ top_k_results = 4
  /\ retrieved = NotRetrieved
  /\ input \in Texts
  /\ default_language \in DefaultLanguages
  /\ out = NoOutput
  /\ ChunkerIdle

SpecText == InitText /\ [][NextText]_vars

\* The splitter of a pipeline with valid chunk settings, given an empty
\* document or the sentence of the worked example.
InitChunk ==
  /\ InitFolder
  /\ ServeIdle
  /\ top_k_results = 4
  /\ retrieved = NotRetrieved
  /\ input = <<>>
  /\ default_language = "en"
  /\ out = NoOutput
  /\ \E c \in ChunkSettings :
       /\ c.overlap < c.size
       /\ chunk_size = c.size
       /\ chunk_overlap = c.overlap
  /\ page_content \in {<<>>, <<Devotion>>}
  /\ chunked = NotChunked

SpecChunk == InitChunk /\ [][NextChunk]_vars

====
